---- MODULE Spec2Model ----
(***************************************************************************)
(* A model of the PDF outline extractor: the batch orchestration of        *)
(* src/src/processor.py (BatchProcessor) and the per-document extraction   *)
(* of src/src/extractor.py (OptimizedOCRExtractor), with the helpers of    *)
(* src/src/utils.py and the language profiles of src/src/config.py.        *)
(*                                                                         *)
(* Confidences are kept in hundredths (0.25 is 25) and font sizes in       *)
(* tenths of a point (12 pt is 120), so that every comparison of the       *)
(* source is an integer comparison.                                        *)
(***************************************************************************)
EXTENDS Integers, Sequences, FiniteSets, TLC

\* ------------------------------------------------------------------ bounds
\* Number of candidate files in the input directory of a batch.
MaxFiles == 3
\* Number of pages of a document, and of lines it yields in all.
MaxPages == 2
MaxLines == 3
\* Number of documents handed to one extractor object.
MaxDocs == 3

\* ------------------------------------------------------- program constants
\* processor.py:34  min(8, ...)
DefaultWorkerCap == 8
\* processor.py:34  (os.cpu_count() or 4)
FallbackCpuCount == 4

None == "None"

Min(a, b) == IF a <= b THEN a ELSE b
Max(a, b) == IF a >= b THEN a ELSE b

\* ---------------------------------------------------------------- config.py
\* Config.SUPPORTED_LANGUAGES, the keys of the table.
SUPPORTED_LANGUAGES ==
    {"english", "japanese", "chinese_simplified", "chinese_traditional",
     "korean", "spanish", "french", "german", "portuguese", "italian",
     "russian", "arabic", "hindi"}

\* Config.__init__, line 46: the Tesseract language code of a supported
\* language, SUPPORTED_LANGUAGES[language].
tesseract_lang(lang) ==
    IF lang = "english" THEN "eng"
    ELSE IF lang = "japanese" THEN "jpn"
    ELSE IF lang = "chinese_simplified" THEN "chi_sim"
    ELSE IF lang = "chinese_traditional" THEN "chi_tra"
    ELSE IF lang = "korean" THEN "kor"
    ELSE IF lang = "spanish" THEN "spa"
    ELSE IF lang = "french" THEN "fra"
    ELSE IF lang = "german" THEN "deu"
    ELSE IF lang = "portuguese" THEN "por"
    ELSE IF lang = "italian" THEN "ita"
    ELSE IF lang = "russian" THEN "rus"
    ELSE IF lang = "arabic" THEN "ara"
    ELSE "hin"

\* The membership test the extractor repeats for the CJK/Korean settings.
AsianLanguages ==
    {"japanese", "chinese_simplified", "chinese_traditional", "korean"}

\* Config._get_language_config: which rule set a language name selects; the
\* languages without a set of their own use the English one.
ProfileOf(lang) ==
    IF lang = "english" THEN "english"
    ELSE IF lang = "japanese" THEN "japanese"
    ELSE IF lang \in {"chinese_simplified", "chinese_traditional"} THEN "chinese"
    ELSE IF lang = "korean" THEN "korean"
    ELSE "english"

\* The rule tables (pattern number, level, base confidence in hundredths), in
\* the order of the source.
EnglishRules ==
    << [k |-> 1,  level |-> "H1",    base |-> 90],
       [k |-> 2,  level |-> "H1",    base |-> 85],
       [k |-> 3,  level |-> "H1",    base |-> 80],
       [k |-> 4,  level |-> "H2",    base |-> 80],
       [k |-> 5,  level |-> "H2",    base |-> 70],
       [k |-> 6,  level |-> "H3",    base |-> 75],
       [k |-> 7,  level |-> "H3",    base |-> 60],
       [k |-> 8,  level |-> "H3",    base |-> 50],
       [k |-> 9,  level |-> "TITLE", base |-> 70],
       [k |-> 10, level |-> "TITLE", base |-> 60],
       [k |-> 11, level |-> "H1",    base |-> 60],
       [k |-> 12, level |-> "H1",    base |-> 50] >>

JapaneseRules ==
    << [k |-> 1,  level |-> "H1",    base |-> 90],
       [k |-> 2,  level |-> "H1",    base |-> 80],
       [k |-> 3,  level |-> "H2",    base |-> 80],
       [k |-> 4,  level |-> "H3",    base |-> 75],
       [k |-> 5,  level |-> "H3",    base |-> 60],
       [k |-> 6,  level |-> "H3",    base |-> 60],
       [k |-> 7,  level |-> "H1",    base |-> 80],
       [k |-> 8,  level |-> "H1",    base |-> 70],
       [k |-> 9,  level |-> "H1",    base |-> 60],
       [k |-> 10, level |-> "TITLE", base |-> 60] >>

ChineseRules ==
    << [k |-> 1, level |-> "H1", base |-> 90],
       [k |-> 2, level |-> "H1", base |-> 80],
       [k |-> 3, level |-> "H2", base |-> 80],
       [k |-> 4, level |-> "H3", base |-> 60],
       [k |-> 5, level |-> "H1", base |-> 80],
       [k |-> 6, level |-> "H1", base |-> 60] >>

KoreanRules ==
    << [k |-> 1, level |-> "H1", base |-> 90],
       [k |-> 2, level |-> "H1", base |-> 80],
       [k |-> 3, level |-> "H2", base |-> 80],
       [k |-> 4, level |-> "H3", base |-> 60],
       [k |-> 5, level |-> "H1", base |-> 80],
       [k |-> 6, level |-> "H1", base |-> 60] >>

\* Config.heading_patterns
heading_patterns(lang) ==
    IF ProfileOf(lang) = "english" THEN EnglishRules
    ELSE IF ProfileOf(lang) = "japanese" THEN JapaneseRules
    ELSE IF ProfileOf(lang) = "chinese" THEN ChineseRules
    ELSE KoreanRules

\* Config.font_thresholds, in tenths of a point; every profile has the same.
font_thresholds(lang, level) ==
    IF level = "TITLE" THEN 160
    ELSE IF level = "H1" THEN 140
    ELSE IF level = "H2" THEN 120
    ELSE IF level = "H3" THEN 100
    ELSE 120

\* The line texts of the model.  They carry no leading or trailing blanks, as
\* the assembled lines of the source do (every text is stripped on assembly).
\* The texts of the second set are what the OCR words of OcrWords join into;
\* in them one character stands for one ideograph, so that lengths are kept:
\*   "#" for U+7B2C (dai, the ordinal prefix), "$" for U+7AE0 (sho, chapter),
\*   "@" for U+5E8F (jo, preface).
Texts ==
    {"Chapter 1: Introduction", "ANNUAL REPORT 2024", "1. Overview of results",
     "1.1 Background", "An overview.", "plain body text here.", "42",
     "Anoverview.", "ANNUALREPORT2024"}
    \cup
    {"#", "1", "$", "@", "#1", "# 1", "#$", "# $", "#@", "# @", "1$", "1 $",
     "1@", "1 @", "$@", "$ @", "#1$", "# 1 $", "#1@", "# 1 @", "#$@", "# $ @",
     "1$@", "1 $ @", "#1$@", "# 1 $ @"}

\* re.search(pattern, text, re.IGNORECASE) for the texts of the model: the
\* triples (profile, pattern number, text) for which the pattern of the source
\* is found in the text.
SearchTable ==
    { <<"english", 1, "Chapter 1: Introduction">>,
      <<"english", 3, "1. Overview of results">>,
      <<"english", 4, "1.1 Background">>,
      <<"english", 9, "ANNUAL REPORT 2024">>,
      <<"english", 9, "ANNUALREPORT2024">>,
      <<"english", 10, "Chapter 1: Introduction">>,
      <<"english", 10, "ANNUAL REPORT 2024">>,
      <<"english", 10, "ANNUALREPORT2024">>,
      <<"english", 12, "Chapter 1: Introduction">>,
      <<"english", 12, "1. Overview of results">>,
      <<"english", 12, "An overview.">>,
      <<"japanese", 1, "#1$@">>,
      <<"japanese", 2, "1. Overview of results">>,
      <<"japanese", 2, "1.1 Background">>,
      <<"chinese", 1, "#1$@">>,
      <<"chinese", 2, "1. Overview of results">>,
      <<"chinese", 2, "1.1 Background">>,
      <<"korean", 2, "1. Overview of results">>,
      <<"korean", 2, "1.1 Background">> }

\* re.match(pattern, text, re.IGNORECASE), anchored at the start of the text.
MatchTable ==
    { <<"english", 1, "Chapter 1: Introduction">>,
      <<"english", 3, "1. Overview of results">>,
      <<"english", 4, "1.1 Background">>,
      <<"english", 9, "ANNUAL REPORT 2024">>,
      <<"english", 9, "ANNUALREPORT2024">>,
      <<"english", 10, "Chapter 1: Introduction">>,
      <<"english", 10, "ANNUAL REPORT 2024">>,
      <<"english", 10, "ANNUALREPORT2024">>,
      <<"japanese", 1, "#1$@">>,
      <<"japanese", 2, "1. Overview of results">>,
      <<"japanese", 2, "1.1 Background">>,
      <<"chinese", 1, "#1$@">>,
      <<"chinese", 2, "1. Overview of results">>,
      <<"chinese", 2, "1.1 Background">>,
      <<"korean", 2, "1. Overview of results">>,
      <<"korean", 2, "1.1 Background">> }

re_search(lang, k, text) == <<ProfileOf(lang), k, text>> \in SearchTable
re_match(lang, k, text) == <<ProfileOf(lang), k, text>> \in MatchTable

\* re.match(r'^[\d\s]+$', text): the text is made of digits and blanks only.
DigitsOnly(text) == text \in {"42", "1"}

\* str.isupper() for the texts of the model.
IsUpper(text) == text \in {"ANNUAL REPORT 2024", "ANNUALREPORT2024"}

detect_language_IdeographsApart(sample) ==
    LET japanese_chars == sample.kana + sample.kana_marks
        chinese_chars  == sample.cjk
        korean_chars   == sample.hangul
        total_chars    == sample.kana + sample.cjk + sample.hangul + sample.latin
    IN  IF total_chars > 0 /\ 10 * japanese_chars > 3 * total_chars
        THEN "japanese"
        ELSE IF total_chars > 0 /\ 10 * korean_chars > 3 * total_chars
        THEN "korean"
        ELSE IF total_chars > 0 /\ 10 * chinese_chars > 3 * total_chars
        THEN "chinese_simplified"
        ELSE "english"

\* Config.detect_language on a sample given by its character counts:
\*   kana        Hiragana and Katakana letters
\*   kana_marks  characters of U+3040..U+30FF that str.isalpha() rejects
\*               (the middle dot U+30FB, the voicing marks U+3099..U+309C)
\*   cjk         ideographs U+4E00..U+9FAF
\*   hangul      Hangul syllables
\*   latin       other alphabetic characters
\*   other       other characters that are not alphabetic
\* The three script counts go by range, total_chars by str.isalpha();
\* x / total > 0.3 is 10 * x > 3 * total.
detect_language(sample) ==
    LET japanese_chars == sample.kana + sample.kana_marks + sample.cjk
        chinese_chars  == sample.cjk
        korean_chars   == sample.hangul
        total_chars    == sample.kana + sample.cjk + sample.hangul + sample.latin
    IN  IF total_chars > 0 /\ 10 * japanese_chars > 3 * total_chars
        THEN "japanese"
        ELSE IF total_chars > 0 /\ 10 * korean_chars > 3 * total_chars
        THEN "korean"
        ELSE IF total_chars > 0 /\ 10 * chinese_chars > 3 * total_chars
        THEN "chinese_simplified"
        ELSE "english"

SampleLen(sample) ==
    sample.kana + sample.kana_marks + sample.cjk + sample.hangul
    + sample.latin + sample.other

\* -------------------------------------------------------------- extractor.py
\* _estimate_font_size: max(8, min(28, height * 0.8)), in tenths of a point.
estimate_font_size(height) == Max(80, Min(280, 8 * height))

\* _is_text_centered: abs(x_pos - page_width / 2) < page_width * 0.3.
is_text_centered(x_pos, page_width) ==
    LET d == 10 * x_pos - 5 * page_width
    IN  (IF d >= 0 THEN d ELSE -d) < 3 * page_width

\* _detect_bold_text: a heading pattern matches at the start of the text, or
\* the font is larger than 14, or (English) the text is upper case and longer
\* than 3.
detect_bold_text(lang, text, font_size) ==
    \/ \E i \in 1..Len(heading_patterns(lang)) :
          re_match(lang, heading_patterns(lang)[i].k, text)
    \/ font_size > 140
    \/ lang = "english" /\ IsUpper(text) /\ Len(text) > 3

RECURSIVE JoinWords(_, _)
JoinWords(words, sep) ==
    IF Len(words) = 0 THEN ""
    ELSE IF Len(words) = 1 THEN words[1]
    ELSE words[1] \o sep \o JoinWords(Tail(words), sep)

RECURSIVE SumSeq(_)
SumSeq(q) == IF Len(q) = 0 THEN 0 ELSE q[1] + SumSeq(Tail(q))

\* _finalize_line: the words of one OCR line, its bounding box <<x, y, w, h>>
\* and its word confidences become a line, or nothing (<<>>) when the text is
\* too short or the average confidence too low.
finalize_line(lang, line_data, page_num, page_width) ==
    LET text == IF lang \in {"japanese", "chinese_simplified", "chinese_traditional"}
                THEN JoinWords(line_data.words, "")
                ELSE JoinWords(line_data.words, " ")
        min_length == IF lang \in AsianLanguages THEN 1 ELSE 2
        min_conf   == IF lang \in AsianLanguages THEN 20 ELSE 25
        font_size  == estimate_font_size(line_data.bbox[4])
    IN  IF Len(text) < min_length
           \/ SumSeq(line_data.confidences) < min_conf * Len(line_data.confidences)
        THEN <<>>
        ELSE << [text |-> text, page |-> page_num, font_size |-> font_size,
                 is_bold |-> detect_bold_text(lang, text, font_size),
                 is_centered |-> is_text_centered(line_data.bbox[1], page_width),
                 method |-> "ocr"] >>

\* _group_words_into_lines, line 277: the line no word has been put in yet.
NoCurrentLine == [words |-> <<>>, bbox |-> <<>>, confidences |-> <<>>]

\* _group_words_into_lines, lines 282-326: the loop over the OCR words from
\* word i on.  A word is [text, conf, left, top, width, height] in pixels of
\* the rendered image; a word that is empty or not above min_confidence is
\* skipped; a word whose top is within y_tolerance of the top of the current
\* line extends it, any other word closes the current line and opens the
\* next one; the last line is closed after the loop.
RECURSIVE GroupLoop(_, _, _, _, _, _, _, _)
GroupLoop(lang, ocr_data, i, current_line, lines, page_num, page_width, zoom_factor) ==
    LET asian == lang \in AsianLanguages
        min_conf_word == IF asian THEN 20 ELSE 30
        y_tolerance == IF asian THEN 15 ELSE 12
    IN  IF i > Len(ocr_data)
        THEN IF Len(current_line.words) > 0
             THEN lines \o finalize_line(lang, current_line, page_num, page_width)
             ELSE lines
        ELSE LET word == ocr_data[i]
                 x == word.left \div zoom_factor
                 y == word.top \div zoom_factor
                 w == word.width \div zoom_factor
                 h == word.height \div zoom_factor
                 old_bbox == current_line.bbox
                 dy == IF y >= old_bbox[2] THEN y - old_bbox[2] ELSE old_bbox[2] - y
             IN  IF ~(word.text # "" /\ word.conf > min_conf_word)
                 THEN GroupLoop(lang, ocr_data, i + 1, current_line, lines,
                                page_num, page_width, zoom_factor)
                 ELSE IF old_bbox = <<>>
                 THEN GroupLoop(lang, ocr_data, i + 1,
                                [words |-> Append(current_line.words, word.text),
                                 bbox |-> <<x, y, w, h>>,
                                 confidences |-> Append(current_line.confidences, word.conf)],
                                lines, page_num, page_width, zoom_factor)
                 ELSE IF dy < y_tolerance
                 THEN GroupLoop(lang, ocr_data, i + 1,
                                [words |-> Append(current_line.words, word.text),
                                 bbox |-> <<old_bbox[1], old_bbox[2],
                                            Max(old_bbox[1] + old_bbox[3], x + w) - old_bbox[1],
                                            Max(old_bbox[4], h)>>,
                                 confidences |-> Append(current_line.confidences, word.conf)],
                                lines, page_num, page_width, zoom_factor)
                 ELSE GroupLoop(lang, ocr_data, i + 1,
                                [words |-> <<word.text>>, bbox |-> <<x, y, w, h>>,
                                 confidences |-> <<word.conf>>],
                                lines \o finalize_line(lang, current_line, page_num, page_width),
                                page_num, page_width, zoom_factor)

\* _group_words_into_lines
group_words_into_lines(lang, ocr_data, page_num, page_width, zoom_factor) ==
    GroupLoop(lang, ocr_data, 1, NoCurrentLine, <<>>, page_num, page_width, zoom_factor)

\* _extract_ocr_text, line 211: the zoom the page is rendered at.
zoom_factor_of(lang) == IF lang \in AsianLanguages THEN 4 ELSE 3

\* The confidence of one matching rule: the base and the formatting boosts,
\* at most 0.98.
RuleConfidence(lang, rule, line) ==
    Min(98, rule.base
            + (IF line.is_bold THEN 10 ELSE 0)
            + (IF line.font_size >= font_thresholds(lang, rule.level) THEN 15 ELSE 0)
            + (IF line.is_centered /\ rule.level = "TITLE" THEN 20 ELSE 0)
            + (IF line.method = "direct" THEN 5 ELSE 0))

RECURSIVE RuleScan_LastWins(_, _, _, _)
RuleScan_LastWins(lang, line, i, best) ==
    IF i > Len(heading_patterns(lang)) THEN best
    ELSE LET rule == heading_patterns(lang)[i]
             c    == RuleConfidence(lang, rule, line)
         IN  RuleScan_LastWins(lang, line, i + 1,
                      IF re_search(lang, rule.k, line.text) /\ c >= best.conf
                      THEN [level |-> rule.level, conf |-> c]
                      ELSE best)

\* The scan of the rule table: a later rule replaces the best match only with
\* a strictly higher confidence.
RECURSIVE RuleScan(_, _, _, _)
RuleScan(lang, line, i, best) ==
    IF i > Len(heading_patterns(lang)) THEN best
    ELSE LET rule == heading_patterns(lang)[i]
             c    == RuleConfidence(lang, rule, line)
         IN  RuleScan(lang, line, i + 1,
                      IF re_search(lang, rule.k, line.text) /\ c > best.conf
                      THEN [level |-> rule.level, conf |-> c]
                      ELSE best)

\* The formatting-only cascade that replaces a best match below 0.25.
FormatFallback(line, best) ==
    IF line.font_size >= 180 /\ (line.is_bold \/ line.is_centered)
    THEN [level |-> "TITLE", conf |-> 50]
    ELSE IF line.font_size >= 160 /\ line.is_bold
    THEN [level |-> "H1", conf |-> 40]
    ELSE IF line.font_size >= 140 /\ line.is_bold
    THEN [level |-> "H2", conf |-> 35]
    ELSE IF line.font_size >= 120 /\ line.is_bold
    THEN [level |-> "H3", conf |-> 25]
    ELSE IF line.is_centered /\ Len(line.text) > 8
    THEN [level |-> "TITLE", conf |-> 30]
    ELSE best

\* classify_heading
classify_heading(lang, line) ==
    LET min_length == IF lang \in AsianLanguages THEN 1 ELSE 3
    IN  IF Len(line.text) < min_length THEN [level |-> "BODY", conf |-> 10]
        ELSE IF DigitsOnly(line.text) THEN [level |-> "BODY", conf |-> 10]
        ELSE LET best == RuleScan(lang, line, 1, [level |-> "BODY", conf |-> 0])
             IN  IF best.conf < 25 THEN FormatFallback(line, best) ELSE best

min_confidence_Top(lang) == 98

min_confidence_Flat(lang) == 20

\* extract_outline, line 508: the acceptance floor of the active language.
min_confidence(lang) == IF lang \in AsianLanguages THEN 20 ELSE 25

\* extract_outline, line 510: is the verdict on a line accepted.
Accepted(lang, line) ==
    LET v == classify_heading(lang, line)
    IN  v.level # "BODY" /\ v.conf > min_confidence(lang)

OutlineLevel_NoDemotion(level, title) == level

\* extract_outline, lines 512-517: the level an accepted line is emitted
\* with; a TITLE line that comes when the title is set is emitted as H1.
OutlineLevel(level, title) ==
    IF level = "TITLE" /\ title # "" THEN "H1" ELSE level

EmittedPage_ZeroBased(page) == page

\* extract_outline, line 522: 1-based page numbering.
EmittedPage(page) == page + 1

\* extract_outline, lines 504-528: the body of the loop for the line at
\* position i.  o is [title, title_from, outline, done]; title_from and the
\* src field of an entry record which line set the title or made the entry,
\* done that extract_outline has returned.
OutlineStep(lang, o, line, i) ==
    LET v == classify_heading(lang, line)
    IN  IF ~(v.level # "BODY" /\ v.conf > min_confidence(lang)) THEN o
        ELSE IF v.level = "TITLE" /\ o.title = ""
        THEN [o EXCEPT !.title = line.text, !.title_from = i]
        ELSE LET level == OutlineLevel(v.level, o.title)
                 item  == [level |-> level, text |-> line.text,
                           page |-> EmittedPage(line.page), src |-> i]
                 setsTitle == o.title = "" /\ level = "H1" /\ v.conf > 50
             IN  [o EXCEPT
                    !.title      = IF setsTitle THEN line.text ELSE o.title,
                    !.title_from = IF setsTitle THEN i ELSE o.title_from,
                    !.outline    = Append(o.outline, item)]

FinalTitle_StemOnly(o, stem) == IF o.title # "" THEN o.title ELSE stem

\* extract_outline, lines 531-535: the title when no line set it.
FinalTitle(o, stem) ==
    IF o.title # "" THEN o.title
    ELSE IF Len(o.outline) > 0 THEN o.outline[1].text
    ELSE stem

\* ----------------------------------------------------------------- utils.py
\* The files a batch may find in its input directory: what validate_pdf_file
\* reads of a file (existence, suffix, first four bytes).
FileKinds ==
    { [exists |-> TRUE,  suffix |-> ".pdf", header |-> "%PDF"],
      [exists |-> TRUE,  suffix |-> ".pdf", header |-> "JUNK"],
      [exists |-> TRUE,  suffix |-> ".txt", header |-> "%PDF"],
      [exists |-> FALSE, suffix |-> ".pdf", header |-> "%PDF"] }

validate_pdf_file_NoMagic(f) ==
    IF ~f.exists THEN FALSE ELSE f.suffix = ".pdf"

\* validate_pdf_file: the file exists, has the .pdf suffix and starts with
\* the four signature bytes.
validate_pdf_file(f) ==
    IF ~f.exists THEN FALSE
    ELSE IF f.suffix # ".pdf" THEN FALSE
    ELSE f.header = "%PDF"

\* input_dir.glob("*.pdf"): the existing entries whose name ends in .pdf.
glob_pdf(f) == f.exists /\ f.suffix = ".pdf"

\* The names of the entries of the input directory.  Entry f is named
\* <f>.pdf; an entry with the other suffix is named 1.txt, the stem of the
\* first entry.
StemOf(fs, f) == IF fs[f].suffix = ".pdf" THEN f ELSE 1

NameOf(fs, f) == <<StemOf(fs, f), fs[f].suffix>>

\* The entries of one directory have different names.
DistinctNames(fs) ==
    \A f, g \in DOMAIN fs : f # g => NameOf(fs, f) # NameOf(fs, g)

\* -------------------------------------------------------------- variables
VARIABLES
    \* --- the batch (processor.py) ---
    files,              \* input directory: candidate file id -> what is on disk
    language,           \* BatchProcessor.language
    auto_detect_language,
    workers_arg,        \* the max_workers argument (0 models None)
    cpu_count,          \* os.cpu_count() (0 models None)
    max_workers,        \* BatchProcessor.max_workers
    pc,                 \* where process_batch is
    pdf_files,          \* the discovered, valid files, in glob order
    output_dir_exists,
    n_submitted,        \* how many of pdf_files have been submitted
    status,             \* per file: NONE, PENDING, RUNNING, SUCCEEDED, FAILED
    future,             \* per file: what its future holds once the task ended
    collected,          \* files whose future the collector loop has consumed
    progress,           \* ProgressTracker: [total, current]
    results,            \* the results dictionary of process_batch
    returned,           \* what process_batch returned (or that it raised)
    written,            \* history: the output files opened for writing, by task
    \* --- one document (process_single_pdf and the extractor) ---
    d_language,         \* the language the extractor is constructed with
    d_pc,               \* where the processing of the document is
    x_language,         \* extractor.config.language, the active language
    x_auto,             \* extractor.auto_detect_language
    x_detected,         \* extractor.detected_language
    d_npages,           \* doc.page_count
    d_page,             \* page_num of the page loop
    all_lines,          \* all_lines of extract_text_with_positions
    ocr_failed,         \* history: the OCR collaborator raised on some page
    d_i,                \* how many lines the outline loop has walked
    d_out,              \* [title, title_from, outline] of extract_outline
    d_result,           \* the dictionary process_single_pdf returned
    \* --- the command line run (main_modular.py) ---
    interrupted,        \* a KeyboardInterrupt was raised in the main thread
    exit_code,          \* what main returned (NotExited while it runs)
    \* --- one extractor object used for several documents ---
    x_seen,             \* per document: its sample and the _stats it reported
    \* --- a function of the package called on its own ---
    fn_call,            \* the function and its arguments
    fn_ret              \* what it returned

batch_vars == <<files, language, auto_detect_language, workers_arg, cpu_count,
                max_workers, pc, pdf_files, output_dir_exists, n_submitted,
                status, future, collected, progress, results, returned,
                written>>

doc_vars == <<d_language, d_pc, x_language, x_auto, x_detected, d_npages,
              d_page, all_lines, ocr_failed, d_i, d_out, d_result>>

main_vars == <<interrupted, exit_code>>

ext_vars == <<x_seen>>

fn_vars == <<fn_call, fn_ret>>

vars == <<batch_vars, doc_vars, main_vars, ext_vars, fn_vars>>

FileIds == 1..MaxFiles

\* Language names an extractor is constructed with in the model: two
\* supported ones and one outside the supported set.
ConfiguredLanguages == {"english", "japanese", "klingon"}

\* Language names a BatchProcessor is constructed with in the model.
BatchLanguages == {"english", "klingon"}

\* ------------------------------------------------------------ processor.py
\* BatchProcessor.__init__: max_workers or min(8, (os.cpu_count() or 4)).
DefaultMaxWorkers(arg, cpus) ==
    IF arg # 0 THEN arg
    ELSE Min(DefaultWorkerCap, IF cpus # 0 THEN cpus ELSE FallbackCpuCount)

NoResult ==
    [kind |-> "none", success |-> FALSE, pdf_path |-> 0, error |-> None,
     headings_found |-> 0, title |-> None, language |-> None,
     detected_language |-> None]

\* What extractor.extract_outline can hand to process_single_pdf: it raises,
\* or it returns a title, an outline and the _stats (language, detected).
ExtractOutcomes(lang, auto) ==
    { [raised |-> TRUE, error |-> "extraction failed", title |-> None,
       outline_len |-> 0, language |-> None, detected_language |-> None] }
    \cup
    { [raised |-> FALSE, error |-> None, title |-> "title", outline_len |-> 0,
       language |-> lang, detected_language |-> None] }
    \cup
    { [raised |-> FALSE, error |-> None, title |-> "title", outline_len |-> 1,
       language |-> d, detected_language |-> d] :
         d \in (IF auto THEN {"japanese", "english"} \ {lang} ELSE {}) }

\* The collaborators' behaviour during one task: is the file still a valid PDF
\* when the task runs, what extract_outline does, can the output be written.
TaskEnvs(lang, auto) ==
    [valid : BOOLEAN, extract : ExtractOutcomes(lang, auto), write_ok : BOOLEAN]

\* The except branch of process_single_pdf: the failure dictionary.
FailedResult(pdf, err) ==
    [kind |-> "result", success |-> FALSE, pdf_path |-> pdf, error |-> err,
     headings_found |-> 0, title |-> None, language |-> None,
     detected_language |-> None]

\* An exception that leaves process_single_pdf and is stored in the future.
RaisedFuture(pdf, err) ==
    [kind |-> "exception", success |-> FALSE, pdf_path |-> pdf, error |-> err,
     headings_found |-> 0, title |-> None, language |-> None,
     detected_language |-> None]

\* The body of the try block: the first step that raises decides the error.
TryBlockError(lang, env) ==
    IF ~env.valid THEN "Invalid or corrupted PDF file"
    ELSE IF lang \notin SUPPORTED_LANGUAGES THEN "Unsupported language"
    ELSE IF env.extract.raised THEN env.extract.error
    ELSE IF ~env.write_ok THEN "cannot write output file"
    ELSE None

\* process_single_pdf, lines 89-90: the try block comes to open the output
\* file for writing.
ReachesWrite(lang, env) ==
    TryBlockError(lang, env) \in {None, "cannot write output file"}

output_file_Fixed(fs, pdf) == <<"output_dir", 0, ".json">>

\* process_single_pdf, line 89: output_dir / f"{pdf_path.stem}.json".
output_file(fs, pdf) == <<"output_dir", StemOf(fs, pdf), ".json">>

process_single_pdf_NoCatch(pdf, lang, env) ==
    IF TryBlockError(lang, env) # None
    THEN RaisedFuture(pdf, TryBlockError(lang, env))
    ELSE [kind |-> "result", success |-> TRUE, pdf_path |-> pdf, error |-> None,
          headings_found |-> env.extract.outline_len,
          title |-> env.extract.title,
          language |-> env.extract.language,
          detected_language |-> env.extract.detected_language]

process_single_pdf_ConfiguredLanguage(pdf, lang, env) ==
    IF TryBlockError(lang, env) # None
    THEN FailedResult(pdf, TryBlockError(lang, env))
    ELSE [kind |-> "result", success |-> TRUE, pdf_path |-> pdf, error |-> None,
          headings_found |-> env.extract.outline_len,
          title |-> env.extract.title,
          language |-> lang,
          detected_language |-> env.extract.detected_language]

\* BatchProcessor.process_single_pdf: every exception of the try block is
\* caught and turned into the failure dictionary.
process_single_pdf(pdf, lang, env) ==
    IF TryBlockError(lang, env) # None
    THEN FailedResult(pdf, TryBlockError(lang, env))
    ELSE [kind |-> "result", success |-> TRUE, pdf_path |-> pdf, error |-> None,
          headings_found |-> env.extract.outline_len,
          title |-> env.extract.title,
          language |-> env.extract.language,
          detected_language |-> env.extract.detected_language]

\* process_batch, line 133: the files of glob("*.pdf") that pass
\* validate_pdf_file, in the order of the listing.
RECURSIVE ValidInOrder(_, _)
ValidInOrder(fs, i) ==
    IF i > MaxFiles THEN <<>>
    ELSE (IF glob_pdf(fs[i]) /\ validate_pdf_file(fs[i]) THEN <<i>> ELSE <<>>)
         \o ValidInOrder(fs, i + 1)

Running == {f \in FileIds : status[f] = "RUNNING"}
Terminal == {"SUCCEEDED", "FAILED"}

\* main has not returned; once it has, exit_code is <<status>>.
NotExited == <<>>

\* main is not running, no extractor object is followed across documents
\* and no function is called on its own.
MainIdle ==
    /\ interrupted = FALSE
    /\ exit_code = NotExited
    /\ x_seen = <<>>
    /\ fn_call = [fn |-> "none"]
    /\ fn_ret = <<>>

\* No batch is run.
BatchIdle ==
    /\ files = [f \in FileIds |-> [exists |-> FALSE, suffix |-> ".pdf",
                                   header |-> "%PDF"]]
    /\ language = None
    /\ auto_detect_language = FALSE
    /\ workers_arg = 1
    /\ cpu_count = 0
    /\ max_workers = 1
    /\ pc = "idle"
    /\ pdf_files = <<>>
    /\ output_dir_exists = TRUE
    /\ n_submitted = 0
    /\ status = [f \in FileIds |-> "NONE"]
    /\ future = [f \in FileIds |-> NoResult]
    /\ collected = {}
    /\ progress = [total |-> 0, current |-> 0]
    /\ results = [total_files |-> 0, successful |-> <<>>, failed |-> <<>>,
                  languages_detected |-> {}, total_time_set |-> FALSE]
    /\ returned = [done |-> FALSE, raised |-> FALSE, success |-> TRUE,
                   error |-> None]
    /\ written = {}

\* No document is processed on its own.
DocIdle ==
    /\ d_language = None
    /\ d_pc = "idle"
    /\ x_language = None
    /\ x_auto = FALSE
    /\ x_detected = None
    /\ d_npages = 0
    /\ d_page = 0
    /\ all_lines = <<>>
    /\ ocr_failed = FALSE
    /\ d_i = 0
    /\ d_out = [title |-> "", title_from |-> 0, outline |-> <<>>, done |-> FALSE]
    /\ d_result = NoResult

Init ==
    /\ DocIdle
    /\ MainIdle
    /\ files \in [FileIds -> FileKinds]
    /\ DistinctNames(files)
    /\ language \in BatchLanguages
    /\ auto_detect_language \in BOOLEAN
    /\ workers_arg \in 0..1
    /\ cpu_count \in {0, 2, 16}
    /\ (workers_arg # 0 => cpu_count = 2)
    /\ max_workers = DefaultMaxWorkers(workers_arg, cpu_count)
    /\ pc = "COLLECTING_INPUTS"
    /\ pdf_files = <<>>
    /\ output_dir_exists = FALSE
    /\ n_submitted = 0
    /\ status = [f \in FileIds |-> "NONE"]
    /\ future = [f \in FileIds |-> NoResult]
    /\ collected = {}
    /\ progress = [total |-> 0, current |-> 0]
    /\ results = [total_files |-> 0, successful |-> <<>>, failed |-> <<>>,
                  languages_detected |-> {}, total_time_set |-> FALSE]
    /\ returned = [done |-> FALSE, raised |-> FALSE, success |-> TRUE,
                   error |-> None]
    /\ written = {}

NoValidFiles_Never(found) == FALSE

\* process_batch, line 135: if not pdf_files.
NoValidFiles(found) == found = <<>>

\* process_batch, lines 133-144: discovery, and the early return if no file
\* is valid.
Discover ==
    /\ pc = "COLLECTING_INPUTS"
    /\ pdf_files' = ValidInOrder(files, 1)
    /\ IF NoValidFiles(pdf_files')
       THEN /\ pc' = "DONE"
            /\ returned' = [done |-> TRUE, raised |-> FALSE, success |-> FALSE,
                            error |-> "No valid PDF files found"]
            /\ results' = [total_files |-> 0, successful |-> <<>>,
                           failed |-> <<>>, languages_detected |-> {},
                           total_time_set |-> FALSE]
       ELSE /\ pc' = "SETUP"
            /\ UNCHANGED <<returned, results>>
    /\ UNCHANGED <<written, files, language, auto_detect_language, workers_arg,
                   cpu_count, max_workers, output_dir_exists, n_submitted,
                   status, future, collected, progress>>

\* process_batch, lines 147-167: mkdir, the progress tracker, the results.
Setup ==
    /\ pc = "SETUP"
    /\ output_dir_exists' = TRUE
    /\ progress' = [total |-> Len(pdf_files), current |-> 0]
    /\ results' = [total_files |-> Len(pdf_files), successful |-> <<>>,
                   failed |-> <<>>, languages_detected |-> {},
                   total_time_set |-> FALSE]
    /\ pc' = "DISPATCHING"
    /\ UNCHANGED <<written, files, language, auto_detect_language, workers_arg,
                   cpu_count, max_workers, pdf_files, n_submitted, status,
                   future, collected, returned>>

\* process_batch, lines 176-179: executor.submit for the next file; when the
\* last one is submitted the collector loop begins.
Submit ==
    /\ pc = "DISPATCHING"
    /\ n_submitted < Len(pdf_files)
    /\ n_submitted' = n_submitted + 1
    /\ status' = [status EXCEPT ![pdf_files[n_submitted + 1]] = "PENDING"]
    /\ pc' = IF n_submitted + 1 = Len(pdf_files) THEN "AGGREGATING"
             ELSE "DISPATCHING"
    /\ UNCHANGED <<written, files, language, auto_detect_language, workers_arg,
                   cpu_count, max_workers, pdf_files, output_dir_exists,
                   future, collected, progress, results, returned>>

\* The first file, in submission order, that waits in the executor's queue.
FirstPending(f) ==
    /\ status[f] = "PENDING"
    /\ \A i, j \in 1..Len(pdf_files) :
         (pdf_files[j] = f /\ i < j) => status[pdf_files[i]] # "PENDING"

WorkerFree_Unbounded == TRUE

\* ThreadPoolExecutor(max_workers=self.max_workers): a queued task starts
\* only on a free worker thread, and there are at most max_workers of them.
WorkerFree == Cardinality(Running) < max_workers

StartTask(f) ==
    /\ pc \in {"DISPATCHING", "AGGREGATING", "RAISED", "SHUTDOWN"}
    /\ FirstPending(f)
    /\ WorkerFree
    /\ status' = [status EXCEPT ![f] = "RUNNING"]
    /\ UNCHANGED <<written, files, language, auto_detect_language, workers_arg,
                   cpu_count, max_workers, pc, pdf_files, output_dir_exists,
                   n_submitted, future, collected, progress, results,
                   returned>>

\* A worker runs process_single_pdf to its end and sets the future.
FinishTask(f) ==
    /\ status[f] = "RUNNING"
    /\ \E env \in TaskEnvs(language, auto_detect_language) :
         /\ future' = [future EXCEPT ![f] = process_single_pdf(f, language, env)]
         /\ status' = [status EXCEPT ![f] =
                          IF future'[f].success THEN "SUCCEEDED" ELSE "FAILED"]
         /\ written' = IF ReachesWrite(language, env)
                       THEN written \cup {[path |-> output_file(files, f),
                                           task |-> f]}
                       ELSE written
    /\ UNCHANGED <<files, language, auto_detect_language, workers_arg,
                   cpu_count, max_workers, pc, pdf_files, output_dir_exists,
                   n_submitted, collected, progress, results, returned>>

ProgressUpdate_Lost(p, increment) == p

\* ProgressTracker.update(1, name)
ProgressUpdate(p, increment) == [p EXCEPT !.current = p.current + increment]

\* process_batch, lines 189-204: the result goes to one of the two lists and
\* a success adds its languages.
Aggregate(res, r) ==
    IF r.success
    THEN [res EXCEPT
            !.successful = Append(res.successful, r),
            !.languages_detected =
                res.languages_detected
                \cup (IF r.language # None THEN {r.language} ELSE {})
                \cup (IF r.detected_language # None
                      THEN {r.detected_language} ELSE {})]
    ELSE [res EXCEPT !.failed = Append(res.failed, r)]

\* One iteration of the collector loop, lines 182-204: as_completed yields a
\* finished future not yet yielded, future.result() returns the dictionary
\* or re-raises the task's exception.
Collect(f) ==
    /\ pc = "AGGREGATING"
    /\ status[f] \in Terminal
    /\ f \notin collected
    /\ collected' = collected \cup {f}
    /\ IF future[f].kind = "exception"
       THEN /\ pc' = "RAISED"
            /\ returned' = [done |-> FALSE, raised |-> TRUE, success |-> FALSE,
                            error |-> future[f].error]
            /\ UNCHANGED <<progress, results>>
       ELSE /\ progress' = ProgressUpdate(progress, 1)
            /\ results' = Aggregate(results, future[f])
            /\ UNCHANGED <<pc, returned>>
    /\ UNCHANGED <<written, files, language, auto_detect_language, workers_arg,
                   cpu_count, max_workers, pdf_files, output_dir_exists,
                   n_submitted, status, future>>

AllCollected == \A i \in 1..Len(pdf_files) : pdf_files[i] \in collected

LoopOver_Early == TRUE

\* as_completed ends, and the with block is left, once every submitted
\* future has completed and been yielded.
LoopOver == AllCollected

\* process_batch, lines 206-213: the loop is over (every future was yielded),
\* the executor is shut down, the totals are computed and the report returned.
Finalize ==
    /\ pc = "AGGREGATING"
    /\ LoopOver
    /\ results' = [results EXCEPT !.total_time_set = TRUE]
    /\ returned' = [done |-> TRUE, raised |-> FALSE, success |-> TRUE,
                    error |-> None]
    /\ pc' = "DONE"
    /\ UNCHANGED <<written, files, language, auto_detect_language, workers_arg,
                   cpu_count, max_workers, pdf_files, output_dir_exists,
                   n_submitted, status, future, collected, progress>>

Next ==
    \/ Discover /\ UNCHANGED <<doc_vars, main_vars, ext_vars, fn_vars>>
    \/ Setup /\ UNCHANGED <<doc_vars, main_vars, ext_vars, fn_vars>>
    \/ Submit /\ UNCHANGED <<doc_vars, main_vars, ext_vars, fn_vars>>
    \/ \E f \in FileIds : StartTask(f) /\ UNCHANGED <<doc_vars, main_vars, ext_vars, fn_vars>>
    \/ \E f \in FileIds : FinishTask(f) /\ UNCHANGED <<doc_vars, main_vars, ext_vars, fn_vars>>
    \/ \E f \in FileIds : Collect(f) /\ UNCHANGED <<doc_vars, main_vars, ext_vars, fn_vars>>
    \/ Finalize /\ UNCHANGED <<doc_vars, main_vars, ext_vars, fn_vars>>

Spec == Init /\ [][Next]_vars

\* The scheduling the termination of a batch rests on: the thread that runs
\* process_batch goes on, a free worker takes the next queued task, and a
\* running task returns or throws.
FairSpec == Spec /\ WF_vars(Next)

\* ----------------------------------------------------------- main_modular.py
\* main_modular.py:315  return 130
InterruptedExit == 130

\* Every task handed to the executor has ended.
AllSubmittedEnded ==
    \A i \in 1..n_submitted : status[pdf_files[i]] \in Terminal

ExitStatus_FailureCount(ret, res) ==
    IF ret.success THEN Len(res.failed) ELSE 1

\* main_modular.process_batch, lines 273-285: the status of a returned batch.
\* A report without a success key counts as a success of the batch.
ExitStatus(ret, res) ==
    IF ret.success
    THEN (IF Len(res.failed) = 0 THEN 0 ELSE 1)
    ELSE 1

\* A run from the command line: argparse admits only the supported language
\* names (main_modular.py:79-82).
MainInit ==
    /\ Init
    /\ language \in SUPPORTED_LANGUAGES
    /\ cpu_count = 2

\* process_batch, line 147: output_dir.mkdir raises (the directory cannot be
\* created); the exception leaves process_batch.
SetupFails ==
    /\ pc = "SETUP"
    /\ pc' = "RAISED"
    /\ returned' = [done |-> FALSE, raised |-> TRUE, success |-> FALSE,
                    error |-> "cannot create output directory"]
    /\ UNCHANGED <<written, files, language, auto_detect_language, workers_arg,
                   cpu_count, max_workers, pdf_files, output_dir_exists,
                   n_submitted, status, future, collected, progress, results>>
    /\ UNCHANGED main_vars

\* The user interrupts the run: KeyboardInterrupt is raised in the main
\* thread, wherever process_batch is.  Inside the with block of lines
\* 170-204 the exception leaves through the executor's __exit__, which is
\* shutdown(wait=True): nothing more is submitted or collected, and the
\* worker threads go on with the tasks already in the queue.
Interrupt ==
    /\ ~interrupted
    /\ pc \in {"COLLECTING_INPUTS", "SETUP", "DISPATCHING", "AGGREGATING", "DONE"}
    /\ interrupted' = TRUE
    /\ pc' = "SHUTDOWN"
    /\ UNCHANGED <<written, files, language, auto_detect_language, workers_arg,
                   cpu_count, max_workers, pdf_files, output_dir_exists,
                   n_submitted, status, future, collected, progress, results,
                   returned, exit_code>>

\* main, lines 313-315: shutdown(wait=True) has returned, the
\* KeyboardInterrupt reaches main, which returns 130.
ExitInterrupted ==
    /\ pc = "SHUTDOWN"
    /\ AllSubmittedEnded
    /\ exit_code' = <<InterruptedExit>>
    /\ pc' = "EXITED"
    /\ UNCHANGED <<written, files, language, auto_detect_language, workers_arg,
                   cpu_count, max_workers, pdf_files, output_dir_exists,
                   n_submitted, status, future, collected, progress, results,
                   returned, interrupted>>

\* main, lines 316-321: an exception of process_batch reaches main, which
\* returns 1.
ExitError ==
    /\ pc = "RAISED"
    /\ AllSubmittedEnded
    /\ exit_code' = <<1>>
    /\ pc' = "EXITED"
    /\ UNCHANGED <<written, files, language, auto_detect_language, workers_arg,
                   cpu_count, max_workers, pdf_files, output_dir_exists,
                   n_submitted, status, future, collected, progress, results,
                   returned, interrupted>>

\* main_modular.process_batch, lines 273-285: process_batch has returned its
\* report and the status is computed from it.
ExitReturn ==
    /\ pc = "DONE"
    /\ exit_code' = <<ExitStatus(returned, results)>>
    /\ pc' = "EXITED"
    /\ UNCHANGED <<written, files, language, auto_detect_language, workers_arg,
                   cpu_count, max_workers, pdf_files, output_dir_exists,
                   n_submitted, status, future, collected, progress, results,
                   returned, interrupted>>

MainNext ==
    \/ Next
    \/ SetupFails /\ UNCHANGED <<doc_vars, ext_vars, fn_vars>>
    \/ Interrupt /\ UNCHANGED <<doc_vars, ext_vars, fn_vars>>
    \/ ExitInterrupted /\ UNCHANGED <<doc_vars, ext_vars, fn_vars>>
    \/ ExitError /\ UNCHANGED <<doc_vars, ext_vars, fn_vars>>
    \/ ExitReturn /\ UNCHANGED <<doc_vars, ext_vars, fn_vars>>

MainSpec == MainInit /\ [][MainNext]_vars

\* ------------------------------------------------- one document, step by step
\* The processing of a single document by process_single_pdf: the extractor
\* is constructed, the language detected, the pages assembled into lines one
\* page after the other, the lines walked into the outline, the output
\* written.

SeqsUpTo(S, n) == UNION {[1..k -> S] : k \in 0..n}

\* Text samples of the first pages, by their character counts.
Samples ==
    { [kana |-> 0,  kana_marks |-> 0, cjk |-> 0, hangul |-> 0, latin |-> 0,  other |-> 0],
      [kana |-> 0,  kana_marks |-> 0, cjk |-> 0, hangul |-> 0, latin |-> 20, other |-> 4],
      [kana |-> 12, kana_marks |-> 0, cjk |-> 6, hangul |-> 0, latin |-> 2,  other |-> 4],
      [kana |-> 0,  kana_marks |-> 0, cjk |-> 0, hangul |-> 18, latin |-> 2,  other |-> 4] }

\* Lines of a page with extractable text, as _extract_direct_text reads them
\* off the spans: text, largest font size, bold flag, leftmost x.
DirectKinds ==
    { [text |-> "ANNUAL REPORT 2024", size |-> 180, bold |-> TRUE, x |-> 250],
      [text |-> "Chapter 1: Introduction", size |-> 180, bold |-> TRUE, x |-> 50],
      [text |-> "1.1 Background", size |-> 120, bold |-> FALSE, x |-> 50],
      [text |-> "plain body text here.", size |-> 120, bold |-> TRUE, x |-> 50] }

\* Word groups of a scanned page, as _group_words_into_lines hands them to
\* _finalize_line.
OcrKinds ==
    { [words |-> <<"An", "overview.">>, bbox |-> <<50, 100, 80, 15>>,
       confidences |-> <<90, 80>>],
      [words |-> <<"ANNUAL", "REPORT", "2024">>, bbox |-> <<250, 40, 200, 25>>,
       confidences |-> <<90, 85, 80>>] }

\* Lines of the whole-page transcription (longer than one character).
FallbackTexts == {"ANNUAL REPORT 2024", "42"}

\* page.rect.width of the pages of the model.
PageWidthOf(page_num) == 600

\* _extract_direct_text, lines 181-194: one line of the page.
direct_line(k, page_num) ==
    [text |-> k.text, page |-> page_num, font_size |-> k.size,
     is_bold |-> k.bold,
     is_centered |-> is_text_centered(k.x, PageWidthOf(page_num)),
     method |-> "direct"]

\* _extract_ocr_text, lines 246-255: one line of the fallback transcription.
fallback_line(text, page_num) ==
    [text |-> text, page |-> page_num, font_size |-> 120, is_bold |-> FALSE,
     is_centered |-> FALSE, method |-> "ocr_fallback"]

RECURSIVE FinalizeAll(_, _, _)
FinalizeAll(lang, groups, page_num) ==
    IF Len(groups) = 0 THEN <<>>
    ELSE finalize_line(lang, groups[1], page_num, PageWidthOf(page_num))
         \o FinalizeAll(lang, Tail(groups), page_num)

\* What the collaborators give for one page, at most n lines of it:
\*   direct          extractable text runs
\*   ocr             OCR words that group into lines
\*   ocr_error       image_to_data raises
\*   fallback        no line from the words, the transcription gives lines
\*   fallback_error  no line from the words, image_to_string raises
\*   render_error    rendering or preprocessing the page raises
PageInputs(n) ==
    { [kind |-> "direct", direct |-> q, groups |-> <<>>, raw |-> <<>>] :
        q \in SeqsUpTo(DirectKinds, n) }
    \cup
    { [kind |-> "ocr", direct |-> <<>>, groups |-> g, raw |-> <<>>] :
        g \in SeqsUpTo(OcrKinds, n) \ {<<>>} }
    \cup
    { [kind |-> "fallback", direct |-> <<>>, groups |-> <<>>, raw |-> r] :
        r \in SeqsUpTo(FallbackTexts, n) }
    \cup
    { [kind |-> k, direct |-> <<>>, groups |-> <<>>, raw |-> <<>>] :
        k \in {"ocr_error", "fallback_error", "render_error"} }

\* What one page does to the page loop (lines 101-116 with
\* _extract_direct_text and _extract_ocr_text): the lines it adds to
\* all_lines, or an exception.  An error of the OCR engine is caught inside
\* _extract_ocr_text (lines 231-233 and 257-259): it is logged and the page
\* gives no line.  An error of rendering or preprocessing is not caught there.
PageResult(lang, in, page_num) ==
    IF in.kind = "direct"
    THEN [raised |-> FALSE,
          lines |-> [j \in 1..Len(in.direct) |-> direct_line(in.direct[j], page_num)]]
    ELSE IF in.kind = "ocr"
    THEN [raised |-> FALSE, lines |-> FinalizeAll(lang, in.groups, page_num)]
    ELSE IF in.kind = "fallback"
    THEN [raised |-> FALSE,
          lines |-> [j \in 1..Len(in.raw) |-> fallback_line(in.raw[j], page_num)]]
    ELSE IF in.kind \in {"ocr_error", "fallback_error"}
    THEN [raised |-> FALSE, lines |-> <<>>]
    ELSE [raised |-> TRUE, lines |-> <<>>]

NoExtract ==
    [raised |-> FALSE, error |-> None, title |-> None, outline_len |-> 0,
     language |-> None, detected_language |-> None]

ExtractRaised(err) ==
    [raised |-> TRUE, error |-> err, title |-> None, outline_len |-> 0,
     language |-> None, detected_language |-> None]

DocStem == "report"

DocInit ==
    /\ MainIdle
    /\ files = [f \in FileIds |-> [exists |-> FALSE, suffix |-> ".pdf",
                                   header |-> "%PDF"]]
    /\ language = None
    /\ auto_detect_language = FALSE
    /\ workers_arg = 1
    /\ cpu_count = 0
    /\ max_workers = 1
    /\ pc = "idle"
    /\ pdf_files = <<>>
    /\ output_dir_exists = TRUE
    /\ n_submitted = 0
    /\ status = [f \in FileIds |-> "NONE"]
    /\ future = [f \in FileIds |-> NoResult]
    /\ collected = {}
    /\ progress = [total |-> 0, current |-> 0]
    /\ results = [total_files |-> 0, successful |-> <<>>, failed |-> <<>>,
                  languages_detected |-> {}, total_time_set |-> FALSE]
    /\ returned = [done |-> FALSE, raised |-> FALSE, success |-> TRUE,
                   error |-> None]
    /\ written = {}
    /\ d_language \in ConfiguredLanguages
    /\ x_auto \in BOOLEAN
    /\ d_pc = "begin"
    /\ x_language = None
    /\ x_detected = None
    /\ d_npages = 0
    /\ d_page = 0
    /\ all_lines = <<>>
    /\ ocr_failed = FALSE
    /\ d_i = 0
    /\ d_out = [title |-> "", title_from |-> 0, outline |-> <<>>, done |-> FALSE]
    /\ d_result = NoResult

\* process_single_pdf, lines 57-68: the validity check and the construction
\* of the extractor (Config raises on an unsupported language).
DocBegin ==
    /\ d_pc = "begin"
    /\ \E valid \in BOOLEAN :
         LET env == [valid |-> valid, extract |-> NoExtract, write_ok |-> TRUE]
         IN  IF TryBlockError(d_language, env) # None
             THEN /\ d_result' = process_single_pdf(1, d_language, env)
                  /\ d_pc' = "returned"
                  /\ UNCHANGED x_language
             ELSE /\ x_language' = d_language
                  /\ d_pc' = "open"
                  /\ UNCHANGED d_result
    /\ UNCHANGED <<d_language, x_auto, x_detected, d_npages, d_page, all_lines,
                   ocr_failed, d_i, d_out>>

\* extract_text_with_positions, lines 94-99, with _detect_document_language:
\* the document is opened (or fitz.open raises) and, if auto-detection is on
\* and nothing is detected yet, the sample decides the active language.
DocOpen ==
    /\ d_pc = "open"
    /\ \E opened \in BOOLEAN, n \in 1..MaxPages, sample \in Samples :
         IF ~opened
         THEN /\ d_result' = process_single_pdf(1, d_language,
                                [valid |-> TRUE,
                                 extract |-> ExtractRaised("cannot open document"),
                                 write_ok |-> TRUE])
              /\ d_pc' = "returned"
              /\ UNCHANGED <<x_language, x_detected, d_npages>>
         ELSE /\ d_npages' = n
              /\ d_pc' = "pages"
              /\ IF x_auto /\ x_detected = None /\ SampleLen(sample) > 0
                    /\ detect_language(sample) # x_language
                 THEN /\ x_detected' = detect_language(sample)
                      /\ x_language' = detect_language(sample)
                 ELSE UNCHANGED <<x_language, x_detected>>
              /\ UNCHANGED d_result
    /\ UNCHANGED <<d_language, x_auto, d_page, all_lines, ocr_failed, d_i, d_out>>

\* extract_text_with_positions, lines 101-119: one turn of the page loop.
DocPage ==
    /\ d_pc = "pages"
    /\ d_page < d_npages
    /\ \E in \in PageInputs(MaxLines - Len(all_lines)) :
         LET page == PageResult(x_language, in, d_page)
         IN  IF page.raised
             THEN /\ d_result' = process_single_pdf(1, d_language,
                                    [valid |-> TRUE,
                                     extract |-> ExtractRaised("page failed"),
                                     write_ok |-> TRUE])
                  /\ d_pc' = "returned"
                  /\ ocr_failed' = (ocr_failed
                                     \/ in.kind \in {"ocr_error", "fallback_error"})
                  /\ UNCHANGED <<d_page, all_lines>>
             ELSE /\ all_lines' = all_lines \o page.lines
                  /\ d_page' = d_page + 1
                  /\ ocr_failed' = (ocr_failed
                                     \/ in.kind \in {"ocr_error", "fallback_error"})
                  /\ d_pc' = IF d_page + 1 = d_npages THEN "walk" ELSE "pages"
                  /\ UNCHANGED d_result
    /\ UNCHANGED <<d_language, x_language, x_auto, x_detected, d_npages, d_i,
                   d_out>>

\* extract_outline, lines 504-528: the loop takes the next line.
DocWalk ==
    /\ d_pc = "walk"
    /\ d_i < Len(all_lines)
    /\ d_i' = d_i + 1
    /\ d_out' = OutlineStep(x_language, d_out, all_lines[d_i + 1], d_i + 1)
    /\ UNCHANGED <<d_language, d_pc, x_language, x_auto, x_detected, d_npages,
                   d_page, all_lines, ocr_failed, d_result>>

\* extract_outline, lines 530-551, and process_single_pdf, lines 74-105: the
\* title is settled, the output file written and the result returned.
DocFinish ==
    /\ d_pc = "walk"
    /\ d_i = Len(all_lines)
    /\ d_out' = [d_out EXCEPT !.title = FinalTitle(d_out, DocStem), !.done = TRUE]
    /\ \E w \in BOOLEAN :
         d_result' = process_single_pdf(1, d_language,
                        [valid |-> TRUE,
                         extract |-> [raised |-> FALSE, error |-> None,
                                      title |-> d_out'.title,
                                      outline_len |-> Len(d_out.outline),
                                      language |-> x_language,
                                      detected_language |-> x_detected],
                         write_ok |-> w])
    /\ d_pc' = "returned"
    /\ UNCHANGED <<d_language, x_language, x_auto, x_detected, d_npages, d_page,
                   all_lines, ocr_failed, d_i>>

DocNext ==
    \/ DocBegin /\ UNCHANGED <<batch_vars, main_vars, ext_vars, fn_vars>>
    \/ DocOpen /\ UNCHANGED <<batch_vars, main_vars, ext_vars, fn_vars>>
    \/ DocPage /\ UNCHANGED <<batch_vars, main_vars, ext_vars, fn_vars>>
    \/ DocWalk /\ UNCHANGED <<batch_vars, main_vars, ext_vars, fn_vars>>
    \/ DocFinish /\ UNCHANGED <<batch_vars, main_vars, ext_vars, fn_vars>>

DocSpec == DocInit /\ [][DocNext]_vars

\* ------------------------------------- one extractor object, several documents
\* OptimizedOCRExtractor used directly: it is constructed once and
\* extract_outline is called on one document after the other.  Of each
\* document only what decides the language is kept: the text sample of its
\* first pages.

detect_document_language_CjkOnly(auto, x, sample) ==
    IF auto /\ x.detected = None /\ SampleLen(sample) > 0
       /\ detect_language(sample) # x.language
       /\ detect_language(sample) # "english"
    THEN [language |-> detect_language(sample),
          detected |-> detect_language(sample)]
    ELSE x

\* extract_text_with_positions, lines 97-99, with _detect_document_language:
\* detection runs when auto-detection is on and no language has been detected
\* by this object yet, and switches the profile when the sample disagrees
\* with the active language.  x is [language, detected] of the object.
detect_document_language(auto, x, sample) ==
    IF auto /\ x.detected = None /\ SampleLen(sample) > 0
       /\ detect_language(sample) # x.language
    THEN [language |-> detect_language(sample),
          detected |-> detect_language(sample)]
    ELSE x

\* Language names the extractor object is constructed with: those of the
\* single document and two more supported ones, one with the English rule
\* set and one with the Chinese.
ExtractorLanguages ==
    ConfiguredLanguages \cup {"spanish", "chinese_traditional"}

ExtractorInit ==
    /\ MainIdle
    /\ BatchIdle
    /\ d_language \in ExtractorLanguages
    /\ x_auto \in BOOLEAN
    /\ d_pc = "begin"
    /\ x_language = None
    /\ x_detected = None
    /\ d_npages = 0
    /\ d_page = 0
    /\ all_lines = <<>>
    /\ ocr_failed = FALSE
    /\ d_i = 0
    /\ d_out = [title |-> "", title_from |-> 0, outline |-> <<>>, done |-> FALSE]
    /\ d_result = NoResult

\* OptimizedOCRExtractor.__init__, lines 36-38: Config(language) raises the
\* ValueError to the caller, or the object is ready.
ExtractorConstruct ==
    /\ d_pc = "begin"
    /\ IF d_language \notin SUPPORTED_LANGUAGES
       THEN d_pc' = "raised" /\ UNCHANGED x_language
       ELSE d_pc' = "ready" /\ x_language' = d_language
    /\ UNCHANGED <<d_language, x_auto, x_detected, d_npages, d_page, all_lines,
                   ocr_failed, d_i, d_out, d_result, x_seen>>

\* extract_outline on the next document: the detection step and, at the end,
\* the _stats of lines 548-549 (config.language and detected_language).
ExtractorExtract ==
    /\ d_pc = "ready"
    /\ Len(x_seen) < MaxDocs
    /\ \E sample \in Samples :
         LET x == detect_document_language(
                      x_auto, [language |-> x_language, detected |-> x_detected],
                      sample)
         IN  /\ x_language' = x.language
             /\ x_detected' = x.detected
             /\ x_seen' = Append(x_seen, [sample |-> sample,
                                          language |-> x.language,
                                          detected_language |-> x.detected,
                                          tesseract_lang |->
                                              tesseract_lang(x.language)])
    /\ UNCHANGED <<d_language, d_pc, x_auto, d_npages, d_page, all_lines,
                   ocr_failed, d_i, d_out, d_result>>

ExtractorNext ==
    \/ ExtractorConstruct /\ UNCHANGED <<batch_vars, main_vars, fn_vars>>
    \/ ExtractorExtract /\ UNCHANGED <<batch_vars, main_vars, fn_vars>>

ExtractorSpec == ExtractorInit /\ [][ExtractorNext]_vars

\* ------------------------------------------ functions called on their own
\* The functions of the package that depend on their arguments only, called
\* with arguments drawn from bounded sets; fn_call keeps the arguments of the
\* call and fn_ret what it returned.  The functions keep nothing between
\* calls, so a behaviour is one call.

\* Largest count of one kind of character in a text sample.
MaxCount == 2

SampleSpace ==
    [kana : 0..MaxCount, kana_marks : 0..MaxCount, cjk : 0..MaxCount,
     hangul : 0..MaxCount, latin : 0..MaxCount, other : 0..MaxCount]

CallInit ==
    /\ MainIdle
    /\ BatchIdle
    /\ DocIdle

\* Config.detect_language(text_sample)
CallDetectLanguage ==
    /\ fn_call.fn = "none"
    /\ \E sample \in SampleSpace :
           /\ fn_call' = [fn |-> "detect_language", sample |-> sample]
           /\ fn_ret' = <<detect_language(sample)>>
           /\ UNCHANGED x_seen

\* Font sizes of the lines classified on their own, in tenths of a point:
\* below, at and above each threshold of the classifier.
FontSizes == {80, 110, 120, 130, 140, 160, 180, 200}

\* Profiles the classifier is called under.
ClassifyLanguages == {"english", "japanese", "korean"}

\* classify_heading(line) on a line and on the same line with a font size
\* that is not smaller: fn_ret is <<verdict of the line, verdict of the
\* line with font_size2>>.
CallClassifyHeading ==
    /\ fn_call.fn = "none"
    /\ \E lang \in ClassifyLanguages, text \in Texts, bold \in BOOLEAN,
          centered \in BOOLEAN, method \in {"direct", "ocr", "ocr_fallback"},
          f1 \in FontSizes, f2 \in FontSizes :
           LET line == [text |-> text, page |-> 0, font_size |-> f1,
                        is_bold |-> bold, is_centered |-> centered,
                        method |-> method]
           IN  /\ f1 <= f2
               /\ fn_call' = [fn |-> "classify_heading", language |-> lang,
                              line |-> line, font_size2 |-> f2]
               /\ fn_ret' = <<classify_heading(lang, line),
                              classify_heading(lang, [line EXCEPT !.font_size = f2])>>
               /\ UNCHANGED x_seen

\* The OCR words of one scanned line, as image_to_data reports them: the
\* ordinal prefix, a digit, the chapter ideograph and one more ideograph.
OcrWords ==
    << [text |-> "#", conf |-> 90, left |-> 0,  top |-> 0, width |-> 10, height |-> 10],
       [text |-> "1", conf |-> 88, left |-> 10, top |-> 0, width |-> 8,  height |-> 10],
       [text |-> "$", conf |-> 85, left |-> 18, top |-> 0, width |-> 10, height |-> 10],
       [text |-> "@", conf |-> 80, left |-> 28, top |-> 0, width |-> 10, height |-> 10] >>

\* Confidences a word may be reported with instead of its own (0 keeps its
\* own): between the two word floors, and below both.
WordConfs == {0, 25, 15}

\* Tops a word may be reported at: on the line, and well below it.
WordTops == {0, 80}

\* The words of OcrWords picked by mask, in order, with the confidences and
\* tops given.
PickWords(mask, confs, tops) ==
    LET idx == SelectSeq(<<1, 2, 3, 4>>, LAMBDA i : i \in mask)
    IN  [j \in 1..Len(idx) |->
            [OcrWords[idx[j]] EXCEPT
                !.conf = IF confs[idx[j]] = 0 THEN @ ELSE confs[idx[j]],
                !.top = tops[idx[j]]]]

\* _group_words_into_lines(ocr_data, page_num, page_width, zoom_factor) as
\* _extract_ocr_text calls it, followed by classify_heading on every line it
\* gives: fn_ret is <<lines, verdicts of the lines>>.
CallGroupWords ==
    /\ fn_call.fn = "none"
    /\ \E lang \in ClassifyLanguages, mask \in SUBSET (1..4),
          confs \in [1..4 -> WordConfs], tops \in [1..4 -> WordTops] :
           LET ocr_data == PickWords(mask, confs, tops)
               lines == group_words_into_lines(lang, ocr_data, 0, PageWidthOf(0),
                                               zoom_factor_of(lang))
           IN  /\ fn_call' = [fn |-> "group_words_into_lines", language |-> lang,
                              ocr_data |-> ocr_data,
                              zoom_factor |-> zoom_factor_of(lang)]
               /\ fn_ret' = <<lines,
                              [j \in 1..Len(lines) |-> classify_heading(lang, lines[j])]>>
               /\ UNCHANGED x_seen

\* Most pages of a document whose first pages are sampled.
MaxSamplePages == 4

\* Lengths of page.get_text() of the pages of the model.
PageTextLens == {0, 500, 1000, 1500}

\* _detect_document_language, lines 128-137: the sampling loop from page
\* page_num on (1-based here), over range(min(3, doc.page_count)): the first
\* 1000 characters of the page are added, and the loop is left when the
\* sample is longer than 2000.  sample_len is len(sample_text); read keeps,
\* for every page sampled, the length the sample had before.
RECURSIVE SampleLoop(_, _, _, _)
SampleLoop(page_lens, page_num, sample_len, read) ==
    IF page_num > Min(3, Len(page_lens))
    THEN [sample_len |-> sample_len, read |-> read]
    ELSE LET added == sample_len + Min(1000, page_lens[page_num])
         IN  IF added > 2000
             THEN [sample_len |-> added, read |-> Append(read, sample_len)]
             ELSE SampleLoop(page_lens, page_num + 1, added,
                             Append(read, sample_len))

\* The sampling of _detect_document_language(doc) on a document given by
\* the text lengths of its pages.
CallSampleDocument ==
    /\ fn_call.fn = "none"
    /\ \E n \in 1..MaxSamplePages :
          \E page_lens \in [1..n -> PageTextLens] :
              /\ fn_call' = [fn |-> "sample_document", page_lens |-> page_lens]
              /\ fn_ret' = <<SampleLoop(page_lens, 1, 0, <<>>)>>
              /\ UNCHANGED x_seen

CallNext ==
    \/ CallDetectLanguage /\ UNCHANGED <<batch_vars, doc_vars, main_vars>>
    \/ CallClassifyHeading /\ UNCHANGED <<batch_vars, doc_vars, main_vars>>
    \/ CallGroupWords /\ UNCHANGED <<batch_vars, doc_vars, main_vars>>
    \/ CallSampleDocument /\ UNCHANGED <<batch_vars, doc_vars, main_vars>>

CallSpec == CallInit /\ [][CallNext]_vars

\* ===================================================================== claims
\* ----------------------------------------------------- of one document
\* The lines of the document that are accepted at TITLE level on their own:
\* classified TITLE with a confidence above the floor of the active language.
AcceptedTitleLines ==
    {i \in 1..Len(all_lines) :
        /\ classify_heading(x_language, all_lines[i]).level = "TITLE"
        /\ Accepted(x_language, all_lines[i])}

EntriesOf(i) ==
    {j \in 1..Len(d_out.outline) : d_out.outline[j].src = i}

\* C1 (title-once, as claimed): when extract_outline has returned for a
\* document with at least two lines accepted at TITLE level, exactly one of
\* those lines gave the title (and is not in the outline) and each of the
\* others is in the outline as H1, whatever other lines precede them.
C1_TitleOnce ==
    (d_out.done /\ Cardinality(AcceptedTitleLines) >= 2) =>
        /\ d_out.title_from \in AcceptedTitleLines
        /\ EntriesOf(d_out.title_from) = {}
        /\ \A i \in AcceptedTitleLines \ {d_out.title_from} :
              \E j \in EntriesOf(i) : d_out.outline[j].level = "H1"

\* C3 (as claimed): a document on which the OCR engine raised, on any page,
\* is returned as a failure.
C3_OcrErrorFailsDocument ==
    (d_pc = "returned" /\ ocr_failed) => ~d_result.success

\* C4: every entry of the outline has level H1, H2 or H3, in every state of
\* the outline loop and in the returned outline; and each step of the loop
\* on a line accepted at TITLE level either makes that line the title or
\* appends an entry for it with level H1, leaving the earlier entries as
\* they are.
C4_State ==
    \A j \in 1..Len(d_out.outline) :
        d_out.outline[j].level \in {"H1", "H2", "H3"}

C4_Step ==
    (d_i' = d_i + 1) =>
        LET line == all_lines[d_i + 1]
            v    == classify_heading(x_language, line)
        IN  /\ SubSeq(d_out'.outline, 1, Len(d_out.outline)) = d_out.outline
            /\ (v.level = "TITLE" /\ Accepted(x_language, line)) =>
                  IF d_out.title = ""
                  THEN /\ d_out'.title_from = d_i + 1
                       /\ d_out'.outline = d_out.outline
                  ELSE /\ d_out'.title_from = d_out.title_from
                       /\ Len(d_out'.outline) = Len(d_out.outline) + 1
                       /\ d_out'.outline[Len(d_out'.outline)].level = "H1"
                       /\ d_out'.outline[Len(d_out'.outline)].src = d_i + 1

C4_OutlineLevels == [][C4_State /\ C4_State' /\ C4_Step]_vars

\* C4 witness: the outline holds an entry made from a line classified TITLE.
C4_Witness ==
    /\ d_out.done
    /\ \E j \in 1..Len(d_out.outline) :
          classify_heading(x_language, all_lines[d_out.outline[j].src]).level
              = "TITLE"

\* C5: the page of every outline entry is the 0-based page of its line plus
\* one, hence at least 1, and the pages of the outline never decrease in
\* the order of emission.
C5_OutlinePages ==
    /\ \A j \in 1..Len(d_out.outline) :
          /\ d_out.outline[j].page = all_lines[d_out.outline[j].src].page + 1
          /\ d_out.outline[j].page >= 1
    /\ \A j, k \in 1..Len(d_out.outline) :
          j < k => d_out.outline[j].page <= d_out.outline[k].page

\* C5 witness: an outline with entries from the first and the second page.
C5_Witness ==
    /\ d_out.done
    /\ \E j, k \in 1..Len(d_out.outline) :
          d_out.outline[j].page = 1 /\ d_out.outline[k].page = 2

\* ------------------------------------------------------------ of the batch
CountIn(list, f) == Cardinality({j \in 1..Len(list) : list[j].pdf_path = f})

\* The results a file can get from a task of its own, whatever the other
\* files of the batch do.
SoloResults(f) ==
    {process_single_pdf(f, language, env) :
        env \in TaskEnvs(language, auto_detect_language)}

C2_State ==
    /\ pc # "RAISED"
    /\ ~returned.raised
    /\ \A f \in FileIds :
          status[f] \in Terminal =>
              /\ future[f].kind = "result"
              /\ future[f].pdf_path = f
              /\ (status[f] = "FAILED") = (~future[f].success)
    /\ \A f \in FileIds :
          status[f] = "FAILED" =>
              /\ CountIn(results.successful, f) = 0
              /\ CountIn(results.failed, f) = (IF f \in collected THEN 1 ELSE 0)
              /\ future[f].error # None
              /\ \A j \in 1..Len(results.failed) :
                    results.failed[j].pdf_path = f => results.failed[j] = future[f]
    /\ \A f \in FileIds :
          status[f] = "SUCCEEDED" =>
              /\ CountIn(results.failed, f) = 0
              /\ CountIn(results.successful, f) = (IF f \in collected THEN 1 ELSE 0)
              /\ \A j \in 1..Len(results.successful) :
                    results.successful[j].pdf_path = f
                        => results.successful[j] = future[f]
    /\ (returned.done /\ returned.success) =>
          \A i \in 1..Len(pdf_files) :
              pdf_files[i] \in collected /\ status[pdf_files[i]] \in Terminal

C2_Step ==
    \A f \in FileIds :
        /\ status[f] \in Terminal =>
              future'[f] = future[f] /\ status'[f] = status[f]
        /\ (status[f] \notin Terminal /\ status'[f] \in Terminal) =>
              /\ future'[f] \in SoloResults(f)
              /\ \A g \in FileIds \ {f} :
                    future'[g] = future[g] /\ status'[g] = status[g]

StructurallyValid(f) ==
    files[f].exists /\ files[f].suffix = ".pdf" /\ files[f].header = "%PDF"

NumValid == Cardinality({f \in FileIds : StructurallyValid(f)})

\* C6: when discovery finds no valid file, process_batch has returned right
\* after discovery with success = false and an error, total_files = 0 and
\* empty lists; the output directory has not been created and no task has
\* been dispatched.
C6_EmptyBatch ==
    (pc # "COLLECTING_INPUTS" /\ NumValid = 0) =>
        /\ pc = "DONE"
        /\ returned.done /\ ~returned.success /\ returned.error # None
        /\ results.total_files = 0
        /\ results.successful = <<>> /\ results.failed = <<>>
        /\ ~output_dir_exists
        /\ \A f \in FileIds : status[f] = "NONE"

\* C6 witness: an input directory with files, none of them valid, and the
\* batch has returned.
C6_Witness ==
    /\ pc = "DONE"
    /\ NumValid = 0
    /\ \E f \in FileIds : files[f].exists
    /\ ~output_dir_exists

\* C7: a file that fails the structural check is left out at discovery: it
\* is not among the discovered files, no task is ever dispatched for it, it
\* is in neither list, and total_files counts the valid files only.
C7_InvalidExcluded ==
    pc # "COLLECTING_INPUTS" =>
        /\ Len(pdf_files) = NumValid
        /\ pc \notin {"SETUP"} => results.total_files = NumValid
        /\ \A f \in FileIds :
              ~StructurallyValid(f) =>
                  /\ \A i \in 1..Len(pdf_files) : pdf_files[i] # f
                  /\ status[f] = "NONE"
                  /\ f \notin collected
                  /\ CountIn(results.successful, f) = 0
                  /\ CountIn(results.failed, f) = 0

\* C7 witness: three candidates, one of them a .pdf with a bad signature; the
\* batch has returned with total_files = 2.
C7_Witness ==
    /\ pc = "DONE"
    /\ results.total_files = 2
    /\ Cardinality({f \in FileIds : files[f].exists}) = 3
    /\ \E f \in FileIds :
          files[f].exists /\ files[f].suffix = ".pdf" /\ files[f].header # "%PDF"

C8_State ==
    /\ progress.current = Len(results.successful) + Len(results.failed)
    /\ progress.current <= results.total_files
    /\ \A f \in FileIds :
          CountIn(results.successful, f) + CountIn(results.failed, f) <= 1
    /\ returned.done =>
          /\ Len(results.successful) + Len(results.failed) = results.total_files
          /\ progress.current = results.total_files

C8_Step ==
    /\ progress'.current >= progress.current
    /\ \A f \in FileIds :
          status'[f] # status[f] =>
              <<status[f], status'[f]>> \in
                  { <<"NONE", "PENDING">>, <<"PENDING", "RUNNING">>,
                    <<"RUNNING", "SUCCEEDED">>, <<"RUNNING", "FAILED">> }

C9_BoundedConcurrency ==
    /\ Cardinality(Running) <= max_workers
    /\ (workers_arg = 0 /\ cpu_count # 0) =>
          max_workers = (IF cpu_count < 8 THEN cpu_count ELSE 8)

\* C9 witness: every worker is busy and a submitted task waits.
C9_Witness ==
    /\ Cardinality(Running) = max_workers
    /\ \E f \in FileIds : status[f] = "PENDING"

C11_UnsupportedRejected ==
    language \notin SUPPORTED_LANGUAGES =>
        /\ \A f \in FileIds : status[f] \notin {"RUNNING", "SUCCEEDED", "FAILED"}
        /\ results.failed = <<>>

\* C12: when main has returned, its status is 130 if the user interrupted
\* the run; otherwise it is 0 or 1, and it is 0 exactly when process_batch
\* returned a report for a batch with at least one valid file and no
\* document of the batch ended FAILED.  Any number of failed documents, an
\* empty batch and an exception of process_batch all give 1.
C12_ExitStatus ==
    exit_code # NotExited =>
        IF interrupted THEN exit_code = <<InterruptedExit>>
        ELSE /\ exit_code \in {<<0>>, <<1>>}
             /\ exit_code = <<0>> <=>
                   /\ pdf_files # <<>>
                   /\ ~returned.raised
                   /\ \A f \in FileIds : status[f] # "FAILED"

\* C12 witness: an uninterrupted run has returned 1 for a batch in which two
\* documents failed and one succeeded.
C12_Witness ==
    /\ exit_code = <<1>>
    /\ ~interrupted
    /\ Cardinality({f \in FileIds : status[f] = "FAILED"}) = 2
    /\ \E f \in FileIds : status[f] = "SUCCEEDED"

\* C13 (as claimed): once the user has interrupted the run, no task that
\* waits to be started is started, and main returns 130 only when no task
\* is RUNNING.
C13_CooperativeInterrupt ==
    [][/\ interrupted =>
             \A f \in FileIds : status[f] = "PENDING" => status'[f] = "PENDING"
       /\ exit_code' = <<InterruptedExit>> =>
             \A f \in FileIds : status'[f] # "RUNNING"]_vars

\* What a document with the given sample reports when it is processed from
\* the configured language's profile with a detection of its own.
OwnReport(sample) ==
    detect_document_language(x_auto, [language |-> d_language, detected |-> None],
                             sample)

\* C14 (as claimed): every document processed by an extractor object reports
\* the language and the detected language it gets when processed from the
\* configured profile with its own detection, whichever documents the object
\* processed before.
C14_DetectionPerDocument ==
    \A k \in 1..Len(x_seen) :
        /\ x_seen[k].language = OwnReport(x_seen[k].sample).language
        /\ x_seen[k].detected_language = OwnReport(x_seen[k].sample).detected

\* C15 (as claimed): detect_language returns japanese for every non-empty
\* sample made only of characters of the Hiragana, Katakana and ideograph
\* ranges, korean for every non-empty sample made only of characters of the
\* Hangul syllable range, and english for every sample without a character
\* of those ranges.
C15_PureScriptSamples ==
    fn_call.fn = "detect_language" =>
        LET s == fn_call.sample
            jp == s.kana + s.kana_marks + s.cjk
            ko == s.hangul
            rest == s.latin + s.other
        IN  /\ (jp > 0 /\ ko = 0 /\ rest = 0) => fn_ret = <<"japanese">>
            /\ (ko > 0 /\ jp = 0 /\ rest = 0) => fn_ret = <<"korean">>
            /\ (jp = 0 /\ ko = 0) => fn_ret = <<"english">>

\* C16 (as claimed): for every profile and every line, the confidence
\* classify_heading returns for the line with a larger (or equal) font size
\* is not lower than the one it returns for the line.
C16_FontMonotone ==
    fn_call.fn = "classify_heading" => fn_ret[1].conf <= fn_ret[2].conf

\* The document of scenario 1: one page whose only line is the directly
\* extracted text "Chapter 1: Introduction" at 18 pt, bold, at the left,
\* processed under the English profile to the end of extract_outline.
Scenario1 ==
    /\ d_out.done
    /\ x_language = "english"
    /\ d_npages = 1
    /\ all_lines = << [text |-> "Chapter 1: Introduction", page |-> 0,
                       font_size |-> 180, is_bold |-> TRUE,
                       is_centered |-> FALSE, method |-> "direct"] >>

\* C17 (as claimed): scenario 1 yields the line as title and an empty outline.
C17_Scenario1_EmptyOutline ==
    Scenario1 =>
        /\ d_out.title = "Chapter 1: Introduction"
        /\ d_out.outline = <<>>

\* C17 (amended): scenario 1 yields the line as title and an outline of
\* exactly one entry, the same line at level H1 on page 1: the chapter rule
\* classifies the line H1 with confidence 0.98, above the 0.90 of the TITLE
\* rule, and an H1 that gives the title stays in the outline.
C17_Scenario1 ==
    Scenario1 =>
        /\ classify_heading("english", all_lines[1]) = [level |-> "H1", conf |-> 98]
        /\ d_out.title = "Chapter 1: Introduction"
        /\ Len(d_out.outline) = 1
        /\ d_out.outline[1].level = "H1"
        /\ d_out.outline[1].text = "Chapter 1: Introduction"
        /\ d_out.outline[1].page = 1

\* C17 witness: the document of scenario 1 has been processed and its result
\* returned as a success.
C17_Witness ==
    /\ Scenario1
    /\ d_pc = "returned"
    /\ d_result.success

\* C18: under the Japanese profile at zoom factor 4, the three OCR words
\* (ordinal prefix, conf 90, box 0,0,10,10), (1, conf 88, box 10,0,8,10) and
\* (chapter ideograph, conf 85, box 18,0,10,10) are grouped into one line
\* whose text is their concatenation without separator, and classify_heading
\* gives that line level H1 or TITLE through the chapter-pattern rule.
Scenario2 ==
    /\ fn_call.fn = "group_words_into_lines"
    /\ fn_call.language = "japanese"
    /\ fn_call.zoom_factor = 4
    /\ fn_call.ocr_data = SubSeq(OcrWords, 1, 3)

C18_Scenario2 ==
    Scenario2 =>
        /\ Len(fn_ret[1]) = 1
        /\ fn_ret[1][1].text = "#1$"
        /\ re_search("japanese", 1, fn_ret[1][1].text)
        /\ fn_ret[2][1].level \in {"H1", "TITLE"}

\* C19: when extract_outline has returned and no line set the title during
\* the walk, the title is the text of the first outline entry if the outline
\* is not empty and the base filename without extension otherwise; a
\* document without any line has the base filename as title, an empty
\* outline and headings_found = 0; and the headings_found of the result is
\* the length of the outline.
C19_TitleFallback ==
    d_out.done =>
        /\ d_out.title_from = 0 =>
              d_out.title = IF Len(d_out.outline) > 0
                            THEN d_out.outline[1].text
                            ELSE DocStem
        /\ all_lines = <<>> =>
              /\ d_out.title = DocStem
              /\ d_out.outline = <<>>
              /\ d_result.success => d_result.headings_found = 0
        /\ d_result.success => d_result.headings_found = Len(d_out.outline)

\* A document whose title comes from its first outline entry has been
\* processed.
C19_Witness ==
    /\ d_out.done
    /\ d_result.success
    /\ d_out.title_from = 0
    /\ Len(d_out.outline) > 0
    /\ d_out.title = d_out.outline[1].text
    /\ d_result.headings_found = Len(d_out.outline)

\* C20: when process_batch returns, languages_detected is made of the
\* configured language and the detected language, where there is one, of
\* every collected result, success or failure, and of nothing else.
C20_LanguagesSeen ==
    (pc = "DONE" /\ returned.done /\ returned.success) =>
        results.languages_detected =
            UNION { {language} \cup (IF future[f].detected_language # None
                                     THEN {future[f].detected_language}
                                     ELSE {}) : f \in collected }

\* C21 (shared-state discipline): no two tasks of a batch open the same
\* output path for writing, and a step of a worker (one that starts or ends
\* a task) never changes the result lists, the language set or the progress
\* counter: they change only in steps of the thread that runs process_batch.
C21_State ==
    \A w1, w2 \in written : w1.path = w2.path => w1.task = w2.task

C21_Step ==
    (results' # results \/ progress' # progress) =>
        /\ status' = status
        /\ future' = future
        /\ written' = written

C21_SharedState == [][C21_State /\ C21_State' /\ C21_Step]_vars

\* C21 witness: two tasks have written their output files, one result has
\* been aggregated and a third task is running.
C21_Witness ==
    /\ Cardinality(written) >= 2
    /\ collected # {}
    /\ Len(results.successful) + Len(results.failed) >= 1
    /\ \E f \in FileIds : status[f] = "RUNNING"

\* C22 (title resolution, as claimed): when extract_outline has returned,
\* the first line accepted at TITLE level is the document title and has no
\* outline entry, and every later line accepted at TITLE level has an
\* outline entry of level H1, also when an accepted H1 line with confidence
\* above 0.5 comes before the first accepted TITLE line.
C22_TitleResolution ==
    (d_out.done /\ AcceptedTitleLines # {}) =>
        LET first == CHOOSE i \in AcceptedTitleLines :
                        \A k \in AcceptedTitleLines : i <= k
        IN  /\ d_out.title_from = first
            /\ d_out.title = all_lines[first].text
            /\ EntriesOf(first) = {}
            /\ \A i \in AcceptedTitleLines \ {first} :
                  \E j \in EntriesOf(i) : d_out.outline[j].level = "H1"

\* The rules of the profile that are found in the text of the classified
\* line, by their position in the table.
MatchingRules ==
    {k \in 1..Len(heading_patterns(fn_call.language)) :
        re_search(fn_call.language, heading_patterns(fn_call.language)[k].k,
                  fn_call.line.text)}

\* The score of rule k on the classified line, in hundredths.
ScoreOf(k) ==
    LET rule == heading_patterns(fn_call.language)[k]
        line == fn_call.line
        threshold == IF rule.level = "TITLE" THEN 160
                     ELSE IF rule.level = "H1" THEN 140
                     ELSE IF rule.level = "H2" THEN 120
                     ELSE 100
        sum == rule.base
               + (IF line.is_bold THEN 10 ELSE 0)
               + (IF line.font_size >= threshold THEN 15 ELSE 0)
               + (IF line.is_centered /\ rule.level = "TITLE" THEN 20 ELSE 0)
               + (IF line.method = "direct" THEN 5 ELSE 0)
    IN  IF sum > 98 THEN 98 ELSE sum

\* C23: for a line that passes the length guard and the digits-only guard
\* and matches at least one rule, classify_heading returns the level and the
\* score of the first rule, in table order, whose score is the largest among
\* the matching rules; the score of a rule is its base plus 0.10 if bold,
\* 0.15 if the font size reaches the threshold of the rule's level, 0.20 if
\* centered and the rule is a TITLE rule, 0.05 if the method is direct, and
\* at most 0.98.
C23_RuleScan ==
    (/\ fn_call.fn = "classify_heading"
     /\ Len(fn_call.line.text) >= (IF fn_call.language \in AsianLanguages THEN 1 ELSE 3)
     /\ ~DigitsOnly(fn_call.line.text)
     /\ MatchingRules # {}) =>
        LET first == CHOOSE k \in MatchingRules :
                        /\ \A j \in MatchingRules : ScoreOf(j) <= ScoreOf(k)
                        /\ \A j \in MatchingRules :
                              ScoreOf(j) = ScoreOf(k) => k <= j
        IN  /\ fn_ret[1].level = heading_patterns(fn_call.language)[first].level
            /\ fn_ret[1].conf = ScoreOf(first)
            /\ fn_ret[1].conf <= 98

\* C23 witness: a classified line matches two rules of different levels with
\* the same, largest, score, and the verdict is that of the first of them.
C23_Witness ==
    /\ fn_call.fn = "classify_heading"
    /\ \E j, k \in MatchingRules :
          /\ j < k
          /\ ScoreOf(j) = ScoreOf(k)
          /\ \A i \in MatchingRules : ScoreOf(i) <= ScoreOf(j)
          /\ heading_patterns(fn_call.language)[j].level
                # heading_patterns(fn_call.language)[k].level
          /\ fn_ret[1] = [level |-> heading_patterns(fn_call.language)[j].level,
                          conf |-> ScoreOf(j)]

\* C24 (as claimed): a word whose confidence is below the floor of the
\* language starts a new line.  Hence, under a profile that keeps every
\* line of one character, three words on one row of which the first and the
\* third are above the floor and the second is below it come back as two
\* lines at least: the first word and the third are not in the same line.
C24_LowConfidenceBreaksLine ==
    (/\ fn_call.fn = "group_words_into_lines"
     /\ fn_call.language \in AsianLanguages
     /\ Len(fn_call.ocr_data) = 3
     /\ \A i \in 1..3 : fn_call.ocr_data[i].top = 0
     /\ fn_call.ocr_data[1].conf > 20
     /\ fn_call.ocr_data[2].conf < 20
     /\ fn_call.ocr_data[3].conf > 20) =>
        Len(fn_ret[1]) >= 2

\* C25 (as claimed): the words of one OCR line are joined, in input order,
\* without separator under the Japanese, Chinese and Korean profiles and
\* with one space under every other profile.
C25_TokenJoin ==
    (/\ fn_call.fn = "group_words_into_lines"
     /\ Len(fn_call.ocr_data) >= 2
     /\ \A i \in 1..Len(fn_call.ocr_data) :
           fn_call.ocr_data[i].top = 0 /\ fn_call.ocr_data[i].conf > 30) =>
        /\ Len(fn_ret[1]) = 1
        /\ fn_ret[1][1].text =
              JoinWords([i \in 1..Len(fn_call.ocr_data) |-> fn_call.ocr_data[i].text],
                        IF fn_call.language \in {"japanese", "chinese_simplified",
                                                 "chinese_traditional", "korean"}
                        THEN "" ELSE " ")

\* C26 (as claimed): the sampling reads at most the first three pages and at
\* most 1000 characters of each, and reads no page when the sample already
\* holds 2000 characters.
C26_SamplingBound ==
    fn_call.fn = "sample_document" =>
        LET read == fn_ret[1].read
            after == [i \in 1..Len(read) |->
                         IF i < Len(read) THEN read[i + 1] ELSE fn_ret[1].sample_len]
        IN  /\ Len(read) <= 3
            /\ \A i \in 1..Len(read) : after[i] - read[i] <= 1000
            /\ \A i \in 1..Len(read) : read[i] < 2000

\* C27: detect_language returns japanese, korean or english for every
\* sample, never a Chinese language; a sample whose letters are all CJK
\* ideographs is classified japanese.
C27_NeverChinese ==
    fn_call.fn = "detect_language" =>
        /\ fn_ret[1] \in {"japanese", "korean", "english"}
        /\ (/\ fn_call.sample.cjk > 0
            /\ fn_call.sample.kana = 0
            /\ fn_call.sample.hangul = 0
            /\ fn_call.sample.latin = 0) => fn_ret[1] = "japanese"

\* C27 witness: detect_language has been called on a sample of ideographs
\* and nothing else, and has answered japanese.
C27_Witness ==
    /\ fn_call.fn = "detect_language"
    /\ fn_call.sample = [kana |-> 0, kana_marks |-> 0, cjk |-> MaxCount,
                         hangul |-> 0, latin |-> 0, other |-> 0]
    /\ fn_ret = <<"japanese">>

\* C28: a step of the outline loop changes the title or the outline only for
\* a line whose confidence is strictly above the floor of the active
\* language (0.20 for Japanese, Chinese and Korean, 0.25 otherwise); a line
\* whose verdict is (H3, 0.25) is left out under the other languages and is
\* appended to the outline under Japanese, Chinese and Korean.
C28_Step ==
    (d_i' = d_i + 1) =>
        LET line  == all_lines[d_i + 1]
            v     == classify_heading(x_language, line)
            cjk   == x_language \in {"japanese", "chinese_simplified",
                                     "chinese_traditional", "korean"}
            floor == IF cjk THEN 20 ELSE 25
        IN  /\ d_out' # d_out => v.conf > floor
            /\ v = [level |-> "H3", conf |-> 25] =>
                  IF cjk
                  THEN /\ Len(d_out'.outline) = Len(d_out.outline) + 1
                       /\ d_out'.outline[Len(d_out'.outline)].src = d_i + 1
                       /\ d_out'.outline[Len(d_out'.outline)].level = "H3"
                  ELSE d_out' = d_out

C28_StrictAcceptance == [][C28_Step]_vars

\* C28 witness: under the Japanese profile a line with the verdict (H3, 0.25)
\* is in the returned outline.
C28_Witness ==
    /\ d_out.done
    /\ x_language = "japanese"
    /\ \E j \in 1..Len(d_out.outline) :
          /\ d_out.outline[j].level = "H3"
          /\ classify_heading(x_language, all_lines[d_out.outline[j].src])
                = [level |-> "H3", conf |-> 25]

\* C29: once auto-detection has switched the profile for a document, the
\* active language is the detected one, and the result of the document
\* reports it both as language and as detected_language, not the configured
\* language; detected_language is set only to a language other than the
\* configured one.
C29_ReportedLanguage ==
    /\ x_detected # None =>
          /\ x_language = x_detected
          /\ x_detected # d_language
    /\ (d_pc = "returned" /\ d_result.success) =>
          /\ x_detected # None =>
                /\ d_result.language = x_detected
                /\ d_result.detected_language = x_detected
                /\ d_result.language # d_language
          /\ d_result.detected_language # None =>
                d_result.detected_language # d_language

\* C29 witness: a document configured for English has been switched to
\* Japanese and its result is returned.
C29_Witness ==
    /\ d_pc = "returned"
    /\ d_result.success
    /\ d_language = "english"
    /\ x_detected = "japanese"
    /\ d_result.language = "japanese"
    /\ d_result.detected_language = "japanese"

\* C30: for the first document an extractor object with auto-detection is
\* given, a non-empty sample makes the detected language the active one
\* (language and OCR engine code), which is japanese, korean or english; an
\* object configured with another language does not keep it, and a sample of
\* Latin letters switches it to english.  An empty sample keeps the
\* configured language.
C30_DetectionOverrides ==
    (Len(x_seen) >= 1 /\ x_auto) =>
        LET doc == x_seen[1]
            s   == doc.sample
            n   == s.kana + s.kana_marks + s.cjk + s.hangul + s.latin + s.other
        IN  /\ n > 0 =>
                  /\ doc.language \in {"japanese", "korean", "english"}
                  /\ doc.tesseract_lang \in {"jpn", "kor", "eng"}
                  /\ d_language \notin {"japanese", "korean", "english"} =>
                        /\ doc.language # d_language
                        /\ doc.detected_language = doc.language
                  /\ (s.latin > 0 /\ s.kana + s.kana_marks + s.cjk + s.hangul = 0) =>
                        /\ doc.language = "english"
                        /\ doc.tesseract_lang = "eng"
            /\ n = 0 =>
                  /\ doc.language = d_language
                  /\ doc.detected_language = None

\* C30 witness: an object configured for Spanish has been given a document
\* with a sample of Latin letters and works with the English profile.
C30_Witness ==
    /\ Len(x_seen) >= 1
    /\ x_auto
    /\ d_language = "spanish"
    /\ x_seen[1].sample.latin > 0
    /\ x_seen[1].language = "english"
    /\ x_seen[1].detected_language = "english"
    /\ x_seen[1].tesseract_lang = "eng"

====
